---- MODULE Spec2Model ----
(***************************************************************************)
(* redis_info.py: a collectd read plugin that polls a Redis server for its *)
(* INFO report, parses it and dispatches metric readings.                  *)
(*                                                                         *)
(* Python strings are sequences of one-character strings, so that split,   *)
(* rpartition, startswith, strip, int() and the slave\d+ regular           *)
(* expression are computed character by character as the code does.        *)
(* Python values are tagged records: PyStr(s), PyInt(n), PyDict(m),       *)
(* PyBool(b) and None.                                                     *)
(***************************************************************************)
EXTENDS Integers, Sequences, FiniteSets, TLC

(* ---- bound of the model ---- *)
\* greatest number of lines in one INFO report the server sends
MaxLines == 2

(* ---- the state ---- *)
VARIABLES
  REDIS_PASS,        \* the global: None or the configured password
  VERBOSE_LOGGING,   \* the global
  pc,                \* where read_callback stands: idle, wait_auth, wait_status,
                     \* wait_body, derive, project, wildcard, done
  sock,              \* the socket s of this poll: none, open, closed
  wire,              \* the reply body the server has put on the connection
  content_length,    \* fetch_info's local
  data,              \* fetch_info's local: the body read
  info,              \* the mapping of parse_info, then of read_callback
  todo,              \* the keys the wildcard loop has still to visit
  dispatched,        \* the readings dispatched by this callback, in order
  nError,            \* collectd.error calls of this callback
  nWarning,          \* collectd.warning calls of this callback
  nInfo,             \* collectd.info calls of this callback
  outcome,           \* how this poll ended; "none" while it runs
  prevFailed         \* the poll before this one did not end "ok"
vars == <<REDIS_PASS, VERBOSE_LOGGING, pc, sock, wire, content_length, data, info,
          todo, dispatched, nError, nWarning, nInfo, outcome, prevFailed>>

(* ---- Python values ---- *)
None == [t |-> "none"]
PyStr(s) == [t |-> "str", s |-> s]
PyInt(n) == [t |-> "int", n |-> n]
PyDict(m) == [t |-> "dict", d |-> m]
PyBool(b) == [t |-> "bool", b |-> b]
\* bool(v), the truth value "if v:" tests
bool(v) == IF v.t = "bool" THEN v.b
           ELSE IF v.t = "str" THEN v.s # <<>>
           ELSE IF v.t = "int" THEN v.n # 0
           ELSE IF v.t = "dict" THEN DOMAIN v.d # {}
           ELSE FALSE
\* the marker of a raised exception
Raised == [t |-> "exc"]
\* {} : the mapping with no key
EmptyMap == [k \in {} |-> None]
\* m[key] = v
Put(m, key, v) == [k \in (DOMAIN m) \cup {key} |-> IF k = key THEN v ELSE m[k]]

(* ---- str methods ---- *)
Digits == <<"0","1","2","3","4","5","6","7","8","9">>
IsDigit(c) == \E i \in 1..10 : Digits[i] = c
DigitVal(c) == (CHOOSE i \in 1..10 : Digits[i] = c) - 1
IsSpace(c) == c \in {" ", "\t", "\n", "\r", "\f"}

\* c in s, for a one-character c
HasChar(s, c) == \E i \in 1..Len(s) : s[i] = c
\* s.find(c) + 1 : the first position of c, 0 when there is none
Find(s, c) == IF HasChar(s, c) THEN CHOOSE i \in 1..Len(s) : s[i] = c /\ \A j \in 1..(i-1) : s[j] # c ELSE 0
\* s.rfind(c) + 1 : the last position of c, 0 when there is none
RFind(s, c) == IF HasChar(s, c) THEN CHOOSE i \in 1..Len(s) : s[i] = c /\ \A j \in (i+1)..Len(s) : s[j] # c ELSE 0
\* s.startswith(p)
StartsWith(s, p) == Len(s) >= Len(p) /\ SubSeq(s, 1, Len(p)) = p
\* p in s, for strings
Contains(s, p) == \E i \in 0..(Len(s) - Len(p)) : SubSeq(s, i + 1, i + Len(p)) = p

\* s.split(c) : the pieces between the occurrences of c, empty ones included
RECURSIVE Split(_, _)
Split(s, c) ==
  LET i == Find(s, c)
  IN IF i = 0 THEN <<s>>
     ELSE <<SubSeq(s, 1, i - 1)>> \o Split(SubSeq(s, i + 1, Len(s)), c)

\* s.partition(c) in its place: around the first c; (s, '', '') without c
RPartitionFirst(s, c) ==
  LET i == Find(s, c)
  IN IF i = 0 THEN <<s, <<>>, <<>>>>
     ELSE <<SubSeq(s, 1, i - 1), <<c>>, SubSeq(s, i + 1, Len(s))>>
\* s.rpartition(c) : (head, sep, tail) around the last c; ('', '', s) without c
RPartition(s, c) ==
  LET i == RFind(s, c)
  IN IF i = 0 THEN <<<<>>, <<>>, s>>
     ELSE <<SubSeq(s, 1, i - 1), <<c>>, SubSeq(s, i + 1, Len(s))>>

\* s.strip()
RECURSIVE LStrip(_)
LStrip(s) == IF s # <<>> /\ IsSpace(Head(s)) THEN LStrip(Tail(s)) ELSE s
RECURSIVE RStrip(_)
RStrip(s) == IF s # <<>> /\ IsSpace(s[Len(s)]) THEN RStrip(SubSeq(s, 1, Len(s) - 1)) ELSE s
Strip(s) == RStrip(LStrip(s))

\* the value of a string of digits
RECURSIVE DigitsVal(_)
DigitsVal(s) == IF s = <<>> THEN 0 ELSE 10 * DigitsVal(SubSeq(s, 1, Len(s) - 1)) + DigitVal(s[Len(s)])
IsDigits(s) == s # <<>> /\ \A i \in 1..Len(s) : IsDigit(s[i])
\* int(s) for a str: surrounding whitespace and one sign are accepted;
\* anything else raises ValueError
IntOfStr(s) ==
  LET b == Strip(s)
      signed == b # <<>> /\ b[1] \in {"+", "-"}
      body == IF signed THEN Tail(b) ELSE b
  IN IF ~IsDigits(body) THEN Raised
     ELSE IF signed /\ b[1] = "-" THEN PyInt(0 - DigitsVal(body))
     ELSE PyInt(DigitsVal(body))
\* int(v) : TypeError for None and for a dict
int(v) == IF v.t = "str" THEN IntOfStr(v.s) ELSE IF v.t = "int" THEN v ELSE Raised

\* re.compile("slave\d+").match(key) : the pattern matches a prefix of key
SlaveRegexMatch(key) == StartsWith(key, <<"s","l","a","v","e">>) /\ Len(key) >= 6 /\ IsDigit(key[6])

(* ---- the keys the code names ---- *)
K_changes_since_last_save == <<"c","h","a","n","g","e","s","_","s","i","n","c","e","_","l","a","s","t","_","s","a","v","e">>
K_rdb_changes_since_last_save == <<"r","d","b","_","c","h","a","n","g","e","s","_","s","i","n","c","e","_","l","a","s","t","_","s","a","v","e">>
K_master_repl_offset == <<"m","a","s","t","e","r","_","r","e","p","l","_","o","f","f","s","e","t">>
K_offset == <<"o","f","f","s","e","t">>
K_delay == <<"d","e","l","a","y">>
K_keys == <<"k","e","y","s">>
K_slaves_max_delay == <<"s","l","a","v","e","s","_","m","a","x","_","d","e","l","a","y">>

(* ---- parse_info ---- *)
\* a mapping left over from the poll before, instead of a new one
StaleInfo == IF info.t = "dict" THEN info.d ELSE EmptyMap
\* info = {} : the mapping parse_info starts from
NewInfo == EmptyMap

\* info.get(key, default)
DictGet(m, key, default) == IF key \in DOMAIN m THEN m[key] ELSE default

\* the multi-value branch: val.split(','), then k, _, v = sub_val.rpartition('=')
RECURSIVE SubVals(_, _)
SubVals(split_val, val) ==
  IF split_val = <<>> THEN val
  ELSE LET p == RPartition(Head(split_val), "=")
       IN SubVals(Tail(split_val), Put(val, p[1], PyStr(p[3])))
ParseVal(val) == IF HasChar(val, ",") THEN PyDict(SubVals(Split(val, ","), EmptyMap)) ELSE PyStr(val)

\* the loop over info_lines. acc is [t, info, bad]: bad counts the lines logged
\* as badly formatted; key, val = line.split(':') raises ValueError unless the
\* line splits into exactly two pieces
RECURSIVE ParseLines(_, _)
ParseLines(info_lines, acc) ==
  IF info_lines = <<>> THEN acc
  ELSE LET line == Head(info_lines)
           kv == Split(line, ":")
       IN IF ~HasChar(line, ":")
            THEN ParseLines(Tail(info_lines), [acc EXCEPT !.bad = @ + 1])
          ELSE IF Len(kv) # 2
            THEN [acc EXCEPT !.t = "exc"]
          ELSE ParseLines(Tail(info_lines), [acc EXCEPT !.info = Put(@, kv[1], ParseVal(kv[2]))])

\* the alias set only when one of the two keys was reported
AliasIfReported(mapping) ==
  IF K_changes_since_last_save \in DOMAIN mapping \/ K_rdb_changes_since_last_save \in DOMAIN mapping
    THEN Put(mapping, K_changes_since_last_save,
             DictGet(mapping, K_changes_since_last_save, mapping[K_rdb_changes_since_last_save]))
    ELSE mapping
\* info["changes_since_last_save"] = info.get("changes_since_last_save",
\*                                            info.get("rdb_changes_since_last_save"))
Alias(mapping) ==
  Put(mapping, K_changes_since_last_save,
      DictGet(mapping, K_changes_since_last_save, DictGet(mapping, K_rdb_changes_since_last_save, None)))

\* int(info['master_repl_offset']) - int(info[key]['offset']) for one key:
\* KeyError, TypeError or ValueError when a part is missing or no integer
DelayOf(mapping, key) ==
  IF K_master_repl_offset \notin DOMAIN mapping THEN Raised
  ELSE LET m == int(mapping[K_master_repl_offset])
       IN IF m.t = "exc" THEN Raised
          ELSE IF mapping[key].t # "dict" THEN Raised
          ELSE IF K_offset \notin DOMAIN mapping[key].d THEN Raised
          ELSE LET o == int(mapping[key].d[K_offset])
               IN IF o.t = "exc" THEN Raised ELSE PyInt(m.n - o.n)

\* the loop adding 'delay' to every key the regular expression matches; the
\* first failing key raises out of parse_info, whatever the order of the keys
AddDelays(mapping) ==
  LET slaves == {k \in DOMAIN mapping : SlaveRegexMatch(k)}
  IN IF \E k \in slaves : DelayOf(mapping, k).t = "exc" THEN Raised
     ELSE PyDict([k \in DOMAIN mapping |->
                    IF k \in slaves THEN PyDict(Put(mapping[k].d, K_delay, DelayOf(mapping, k)))
                    ELSE mapping[k]])

(* ---- dispatch_value ---- *)
\* st is [t, disp, warn]: the readings dispatched and the warnings logged so
\* far by this read_callback; t = "exc" once an exception has been raised.
\* info is a Python value: the mapping, or info[key] of it in the wildcard
\* pass. type_instance <<>> stands for None; variants EmptyMap for None.
dispatch_value(st, mapping, key, type, type_instance, variants) ==
  LET present == IF mapping.t = "dict" THEN key \in DOMAIN mapping.d ELSE Contains(mapping.s, key)
      ti == IF type_instance = <<>> THEN key ELSE type_instance
      emit(value) == [st EXCEPT !.disp = Append(@, [type |-> type, type_instance |-> ti, value |-> value])]
  IN IF st.t = "exc" THEN st
     ELSE IF mapping.t \notin {"dict", "str"} THEN [st EXCEPT !.t = "exc"]
     ELSE IF ~present THEN [st EXCEPT !.warn = @ + 1]
     ELSE IF mapping.t = "str" THEN [st EXCEPT !.t = "exc"]
     ELSE IF variants # EmptyMap
       THEN IF mapping.d[key].t # "str" THEN [st EXCEPT !.t = "exc"]
            ELSE IF Strip(mapping.d[key].s) \in DOMAIN variants
              THEN emit(variants[Strip(mapping.d[key].s)])
            ELSE st
     ELSE LET value == int(mapping.d[key])
          IN IF value.t = "exc" THEN [st EXCEPT !.t = "exc"] ELSE emit(value.n)

(* ---- read_callback: the fixed list ---- *)
Metric(key, type, type_instance, variants) ==
  [key |-> key, type |-> type, type_instance |-> type_instance, variants |-> variants]
RoleVariants == (<<"s","l","a","v","e">> :> 0) @@ (<<"m","a","s","t","e","r">> :> 1)
LinkVariants == (<<"u","p">> :> 1) @@ (<<"d","o","w","n">> :> 0)
StandardMetrics == <<
  Metric(<<"u","p","t","i","m","e","_","i","n","_","s","e","c","o","n","d","s">>, "uptime", <<"u","p","t","i","m","e">>, EmptyMap),
  Metric(<<"c","o","n","n","e","c","t","e","d","_","c","l","i","e","n","t","s">>, "gauge", <<>>, EmptyMap),
  Metric(<<"c","o","n","n","e","c","t","e","d","_","s","l","a","v","e","s">>, "gauge", <<>>, EmptyMap),
  Metric(<<"b","l","o","c","k","e","d","_","c","l","i","e","n","t","s">>, "gauge", <<>>, EmptyMap),
  Metric(<<"u","s","e","d","_","m","e","m","o","r","y">>, "bytes", <<>>, EmptyMap),
  Metric(K_rdb_changes_since_last_save, "gauge", <<>>, EmptyMap),
  Metric(<<"t","o","t","a","l","_","c","o","n","n","e","c","t","i","o","n","s","_","r","e","c","e","i","v","e","d">>, "counter", <<"c","o","n","n","e","c","t","i","o","n","s","_","r","e","c","i","e","v","e","d">>, EmptyMap),
  Metric(<<"t","o","t","a","l","_","c","o","m","m","a","n","d","s","_","p","r","o","c","e","s","s","e","d">>, "counter", <<"c","o","m","m","a","n","d","s","_","p","r","o","c","e","s","s","e","d">>, EmptyMap),
  Metric(<<"k","e","y","s","p","a","c","e","_","h","i","t","s">>, "counter", <<"h","i","t","s">>, EmptyMap),
  Metric(<<"k","e","y","s","p","a","c","e","_","m","i","s","s","e","s">>, "counter", <<"m","i","s","s","e","s">>, EmptyMap),
  Metric(<<"r","o","l","e">>, "gauge", <<>>, RoleVariants),
  Metric(<<"r","d","b","_","b","g","s","a","v","e","_","i","n","_","p","r","o","g","r","e","s","s">>, "gauge", <<"b","a","c","k","g","r","o","u","n","d","_","s","a","v","e","_","i","n","_","p","r","o","g","r","e","s","s">>, EmptyMap) >>
\* the replication metrics, each dispatched only if its key is in info
ReplicationMetrics == <<
  Metric(K_master_repl_offset, "gauge", <<>>, EmptyMap),
  Metric(<<"m","a","s","t","e","r","_","l","a","s","t","_","i","o","_","s","e","c","o","n","d","s","_","a","g","o">>, "gauge", <<>>, EmptyMap),
  Metric(<<"s","l","a","v","e","_","r","e","p","l","_","o","f","f","s","e","t">>, "gauge", <<>>, EmptyMap),
  Metric(<<"m","a","s","t","e","r","_","l","i","n","k","_","s","t","a","t","u","s">>, "gauge", <<>>, LinkVariants),
  Metric(<<"m","a","s","t","e","r","_","s","y","n","c","_","i","n","_","p","r","o","g","r","e","s","s">>, "gauge", <<>>, EmptyMap) >>

\* no reading, no warning, no exception yet
NoReadings == [t |-> "ok", disp |-> <<>>, warn |-> 0]
\* the one element of a singleton. {F(x) : x \in {e}} binds x to the value of
\* e, so that F does not compute e again each time it reads x
TheOne(S) == CHOOSE x \in S : TRUE

\* what a run of dispatch_value calls adds to st: calls[i] is what call i does
\* by itself, and the calls before the first raising one are put together
Gather(st, calls) ==
  LET raising == {i \in DOMAIN calls : calls[i].t = "exc"}
      done == {i \in DOMAIN calls : \A r \in raising : i < r}
      emitting == {i \in done : calls[i].disp # <<>>}
      nth(j) == CHOOSE i \in emitting : Cardinality({k \in emitting : k <= i}) = j
  IN IF st.t = "exc" THEN st
     ELSE [t |-> IF raising = {} THEN "ok" ELSE "exc",
           disp |-> st.disp \o [j \in 1..Cardinality(emitting) |-> calls[nth(j)].disp[1]],
           warn |-> st.warn + Cardinality({i \in done : calls[i].warn = 1})]
\* the dispatch_value calls for the metrics, in order, until one raises; with
\* ifPresent each call is under "if key in info". Every call reads the same
\* mapping
DispatchAll(st, mapping, metrics, ifPresent) ==
  LET call(i) == IF ifPresent /\ metrics[i].key \notin DOMAIN mapping THEN NoReadings
                 ELSE dispatch_value(NoReadings, PyDict(mapping), metrics[i].key, metrics[i].type,
                                     metrics[i].type_instance, metrics[i].variants)
  IN TheOne({Gather(s, calls) : s \in {st}, calls \in {[i \in 1..Len(metrics) |-> call(i)]}})

SetMax(S) == CHOOSE x \in S : \A y \in S : y <= x

\* slaves_delays, info['slaves_max_delay'] and its reading; gives [st, info].
\* x[1]['delay'] raises for a str value and for a dict without 'delay'
MaxDelay(st, mapping) ==
  LET slaves == {k \in DOMAIN mapping : SlaveRegexMatch(k)}
      bad == \E k \in slaves : mapping[k].t # "dict" \/ K_delay \notin DOMAIN mapping[k].d
      slaves_delays == {mapping[k].d[K_delay].n : k \in slaves}
      info1 == Put(mapping, K_slaves_max_delay, PyInt(SetMax(slaves_delays)))
  IN IF st.t = "exc" \/ slaves = {} THEN [st |-> st, info |-> mapping]
     ELSE IF bad THEN [st |-> [st EXCEPT !.t = "exc"], info |-> mapping]
     ELSE [st |-> dispatch_value(st, PyDict(info1), K_slaves_max_delay, "gauge", <<>>, EmptyMap),
           info |-> info1]

\* read_callback from its first dispatch_value to the wildcard loop: the
\* standard metrics, the greatest delay, the replication metrics
FixedPass(mapping) ==
  TheOne({[r EXCEPT !.st = DispatchAll(@, r.info, ReplicationMetrics, TRUE)] :
            r \in {MaxDelay(s, mapping) :
                     s \in {DispatchAll(NoReadings, mapping, StandardMetrics, FALSE)}}})

(* ---- read_callback: the body of the loop over the keys of info ---- *)
WildcardBody(st, mapping, key) ==
  LET s1 == IF StartsWith(key, <<"r","e","p","l","_">>)
              THEN dispatch_value(st, PyDict(mapping), key, "gauge", <<>>, EmptyMap) ELSE st
      s2 == IF StartsWith(key, <<"v","m","_","s","t","a","t","s","_">>)
              THEN dispatch_value(s1, PyDict(mapping), key, "gauge", <<>>, EmptyMap) ELSE s1
      s3 == IF StartsWith(key, <<"d","b">>)
              THEN dispatch_value(s2, mapping[key], K_keys, "gauge", key \o <<"-","k","e","y","s">>, EmptyMap) ELSE s2
      s4 == IF StartsWith(key, <<"s","l","a","v","e">>) /\ mapping[key].t = "dict"
              THEN dispatch_value(s3, mapping[key], K_delay, "gauge", key \o <<"-","d","e","l","a","y">>, EmptyMap) ELSE s3
  IN s4
\* the keys on which the body of the loop executes a statement
WildcardKeys(mapping) ==
  {k \in DOMAIN mapping : \/ StartsWith(k, <<"r","e","p","l","_">>) \/ StartsWith(k, <<"v","m","_","s","t","a","t","s","_">>)
                       \/ StartsWith(k, <<"d","b">>) \/ StartsWith(k, <<"s","l","a","v","e">>)}

(* ---- the server and the configuration file ---- *)
\* the lines an INFO report is made of
InfoLines == <<
  <<"#"," ","S","e","r","v","e","r","\r">>,
  <<"c","o","n","n","e","c","t","e","d","_","c","l","i","e","n","t","s",":","a","b","c">>,
  <<"u","s","e","d","_","m","e","m","o","r","y",":","5">>,
  <<"r","o","l","e",":","m","a","s","t","e","r","\r">>,
  <<"m","a","s","t","e","r","_","r","e","p","l","_","o","f","f","s","e","t",":","1","0","0","0","\r">>,
  <<"s","l","a","v","e","0",":","s","t","a","t","e","=","o","n","l","i","n","e",",","o","f","f","s","e","t","=","9","0","0","\r">>,
  <<"s","l","a","v","e","2",":","i","p","=",":",":","1",",","o","f","f","s","e","t","=","5">>,
  <<"d","b","0",":","k","e","y","s","=","1","0",",","e","x","p","i","r","e","s","=","0","\r">>,
  <<"d","b","1",":","k","e","y","s","=","5">>,
  <<"d","b","f","o","o",":","k","e","y","s","=","7",",","x","=","5","=","y",",","l","a","g">>,
  <<"r","d","b","_","c","h","a","n","g","e","s","_","s","i","n","c","e","_","l","a","s","t","_","s","a","v","e",":","4","2","\r">>,
  <<"c","h","a","n","g","e","s","_","s","i","n","c","e","_","l","a","s","t","_","s","a","v","e",":","7">>,
  <<"r","e","p","l","_","b","a","c","k","l","o","g","_","s","i","z","e",":","1","6","\r">> >>
\* the lines of InfoLines at the positions S, in the order of InfoLines
RECURSIVE Pick(_, _)
Pick(S, i) == IF i > Len(InfoLines) THEN <<>>
              ELSE IF i \in S THEN <<InfoLines[i]>> \o Pick(S, i + 1)
              ELSE Pick(S, i + 1)
\* the reports the server sends: at most MaxLines of the lines
Reports == {Pick(S, 1) : S \in {T \in SUBSET (1..Len(InfoLines)) : Cardinality(T) <= MaxLines}}
\* '\n'.join(lines)
RECURSIVE Join(_)
Join(lines) == IF lines = <<>> THEN <<>>
               ELSE IF Len(lines) = 1 THEN lines[1]
               ELSE lines[1] \o <<"\n">> \o Join(Tail(lines))
\* the decimal digits of n >= 0
RECURSIVE Dec(_)
Dec(n) == IF n < 10 THEN <<Digits[n + 1]>> ELSE Dec(n \div 10) \o <<Digits[(n % 10) + 1]>>
\* the line ahead of a bulk reply: $<content_length>
StatusLine(body) == <<"$">> \o Dec(Len(body)) \o <<"\r","\n">>
ErrorLine == <<"-","N","O","A","U","T","H"," ","A","u","t","h","e","n","t","i","c","a","t","i","o","n"," ","r","e","q","u","i","r","e","d",".","\r","\n">>
AuthReplies == {<<"+","O","K","\r","\n">>, <<"-","E","R","R"," ","i","n","v","a","l","i","d"," ","p","a","s","s","w","o","r","d","\r","\n">>}
\* the nodes of the configuration block: key and values[0]. Host and Port
\* nodes set REDIS_HOST and REDIS_PORT, which only name the server and are
\* left out of the state; Timeout is a key the plugin does not know
ConfNodes == {[key |-> "Password", value |-> PyStr(<<"p","w">>)],
              [key |-> "Verbose", value |-> PyBool(TRUE)],
              [key |-> "Verbose", value |-> PyBool(FALSE)],
              [key |-> "Timeout", value |-> PyInt(5)]}

\* log_verbose called n times
log_verbose(n) == IF VERBOSE_LOGGING THEN n ELSE 0
\* if REDIS_PASS:
HasPass == bool(REDIS_PASS)

Init ==
  /\ REDIS_PASS = None
  /\ VERBOSE_LOGGING = FALSE
  /\ pc = "idle"
  /\ sock = "none"
  /\ wire = <<>>
  /\ content_length = 0
  /\ data = <<>>
  /\ info = None
  /\ todo = {}
  /\ dispatched = <<>>
  /\ nError = 0
  /\ nWarning = 0
  /\ nInfo = 0
  /\ outcome = "none"
  /\ prevFailed = FALSE

\* configure_callback on a block with the one child node
configure_callback(node) ==
  /\ pc = "idle"
  /\ REDIS_PASS' = IF node.key = "Password" THEN node.value ELSE REDIS_PASS
  /\ VERBOSE_LOGGING' = IF node.key = "Verbose" THEN bool(node.value) ELSE VERBOSE_LOGGING
  /\ nWarning' = IF node.key \notin {"Password", "Verbose"} THEN 1 ELSE 0
  /\ nInfo' = IF VERBOSE_LOGGING' THEN 1 ELSE 0
  /\ nError' = 0
  /\ UNCHANGED <<pc, sock, wire, content_length, data, info, todo, dispatched, outcome, prevFailed>>

\* read_callback is called and fetch_info connects. Refused: the error is
\* logged, fetch_info returns None and read_callback logs and returns.
\* Connected: the auth command or the info command is sent.
fetch_info_connect(connected) ==
  /\ pc \in {"idle", "done"}
  /\ prevFailed' = (outcome \notin {"none", "ok"})
  /\ dispatched' = <<>>
  /\ nWarning' = 0
  /\ wire' = <<>>
  /\ content_length' = 0
  /\ data' = <<>>
  /\ todo' = {}
  /\ IF ~connected
       THEN /\ sock' = "none"
            /\ nError' = 2
            /\ nInfo' = log_verbose(1)
            /\ info' = None
            /\ pc' = "done"
            /\ outcome' = "connect_failed"
       ELSE /\ sock' = "open"
            /\ nError' = 0
            /\ nInfo' = IF HasPass THEN log_verbose(2) ELSE log_verbose(3)
            /\ info' = info
            /\ pc' = IF HasPass THEN "wait_auth" ELSE "wait_status"
            /\ outcome' = "none"
  /\ UNCHANGED <<REDIS_PASS, VERBOSE_LOGGING>>

\* response = fp.readline() after the auth command
fetch_info_auth(response) ==
  /\ pc = "wait_auth"
  /\ IF StartsWith(response, <<"+","O","K">>)
       THEN /\ nInfo' = nInfo + log_verbose(2)
            /\ pc' = "wait_status"
            /\ UNCHANGED <<nError, info, outcome>>
       ELSE /\ nError' = nError + 2
            /\ info' = None
            /\ pc' = "done"
            /\ outcome' = "auth_failed"
            /\ UNCHANGED nInfo
  /\ UNCHANGED <<REDIS_PASS, VERBOSE_LOGGING, sock, wire, content_length, data, todo,
                 dispatched, nWarning, prevFailed>>

\* status_line = fp.readline(); content_length = int(status_line[1:-1])
fetch_info_status(status_line, body) ==
  LET n == IntOfStr(SubSeq(status_line, 2, Len(status_line) - 1))
  IN /\ pc = "wait_status"
     /\ IF n.t = "exc"
          THEN /\ pc' = "done"
               /\ outcome' = "raised_status"
               /\ info' = None
               /\ UNCHANGED <<content_length, wire>>
          ELSE /\ pc' = "wait_body"
               /\ content_length' = n.n
               /\ wire' = body
               /\ UNCHANGED <<outcome, info>>
     /\ UNCHANGED <<REDIS_PASS, VERBOSE_LOGGING, sock, data, todo, dispatched,
                    nError, nWarning, nInfo, prevFailed>>

\* data = fp.read(content_length); s.close(); parse_info(data.split("\n")) up to
\* the changes_since_last_save line
fetch_info_body ==
  LET read == SubSeq(wire, 1, content_length)
      acc == ParseLines(Split(read, "\n"), [t |-> "ok", info |-> NewInfo, bad |-> 0])
  IN /\ pc = "wait_body"
     /\ data' = read
     /\ wire' = SubSeq(wire, content_length + 1, Len(wire))
     /\ sock' = "closed"
     /\ nInfo' = nInfo + log_verbose(1 + acc.bad)
     /\ IF acc.t = "exc"
          THEN /\ info' = None
               /\ pc' = "done"
               /\ outcome' = "raised_parse"
          ELSE /\ info' = PyDict(Alias(acc.info))
               /\ pc' = "derive"
               /\ UNCHANGED outcome
     /\ UNCHANGED <<REDIS_PASS, VERBOSE_LOGGING, content_length, todo, dispatched,
                    nError, nWarning, prevFailed>>

\* parse_info from the slave loop to its return, and read_callback's test of
\* the mapping returned
parse_info_delay ==
  LET r == AddDelays(info.d)
  IN /\ pc = "derive"
     /\ IF r.t = "exc"
          THEN /\ info' = None
               /\ pc' = "done"
               /\ outcome' = "raised_derive"
          ELSE /\ info' = r
               /\ pc' = "project"
               /\ UNCHANGED outcome
     /\ UNCHANGED <<REDIS_PASS, VERBOSE_LOGGING, sock, wire, content_length, data, todo,
                    dispatched, nError, nWarning, nInfo, prevFailed>>

\* read_callback from its first dispatch_value to the start of the loop
read_callback_fixed ==
  /\ pc = "project"
  /\ \E r \in {FixedPass(info.d)} :
       /\ info' = PyDict(r.info)
       /\ dispatched' = r.st.disp
       /\ nWarning' = r.st.warn
       /\ nInfo' = nInfo + log_verbose(Len(r.st.disp))
       /\ IF r.st.t = "exc"
            THEN /\ pc' = "done"
                 /\ outcome' = "raised_fixed"
                 /\ todo' = {}
            ELSE IF WildcardKeys(r.info) = {}
              THEN /\ pc' = "done"
                   /\ outcome' = "ok"
                   /\ todo' = {}
            ELSE /\ pc' = "wildcard"
                 /\ todo' = WildcardKeys(r.info)
                 /\ UNCHANGED outcome
  /\ UNCHANGED <<REDIS_PASS, VERBOSE_LOGGING, sock, wire, content_length, data,
                 nError, prevFailed>>

\* one turn of the loop over the keys of info, in the order the dict gives
read_callback_wildcard(key) ==
  LET st == WildcardBody([t |-> "ok", disp |-> dispatched, warn |-> nWarning], info.d, key)
  IN /\ pc = "wildcard"
     /\ key \in todo
     /\ dispatched' = st.disp
     /\ nWarning' = st.warn
     /\ nInfo' = nInfo + log_verbose(Len(st.disp) - Len(dispatched))
     /\ IF st.t = "exc"
          THEN /\ pc' = "done"
               /\ outcome' = "raised_wildcard"
               /\ todo' = {}
          ELSE IF todo = {key}
            THEN /\ pc' = "done"
                 /\ outcome' = "ok"
                 /\ todo' = {}
          ELSE /\ todo' = todo \ {key}
               /\ UNCHANGED <<pc, outcome>>
     /\ UNCHANGED <<REDIS_PASS, VERBOSE_LOGGING, sock, wire, content_length, data, info,
                    nError, prevFailed>>

Next ==
  \/ \E node \in ConfNodes : configure_callback(node)
  \/ \E connected \in BOOLEAN : fetch_info_connect(connected)
  \/ \E response \in AuthReplies : fetch_info_auth(response)
  \/ \E rep \in Reports : fetch_info_status(StatusLine(Join(rep)), Join(rep))
  \/ fetch_info_status(ErrorLine, <<>>)
  \/ fetch_info_body
  \/ parse_info_delay
  \/ read_callback_fixed
  \/ \E key \in todo : read_callback_wildcard(key)

Spec == Init /\ [][Next]_vars

\* the steps the plugin takes by itself run to the end of the callback; the
\* steps that read from the socket wait for the server, which nothing makes
\* answer
FairSpec ==
  /\ Spec
  /\ WF_vars(parse_info_delay)
  /\ WF_vars(read_callback_fixed)
  /\ WF_vars(\E key \in todo : read_callback_wildcard(key))

(* ---- what the claims speak of ---- *)
\* info_lines of this poll
Lines == Split(data, "\n")
KeyOf(line) == SubSeq(line, 1, Find(line, ":") - 1)
ValOf(line) == SubSeq(line, Find(line, ":") + 1, Len(line))
\* the lines that carry a key, and the last line of each key
Keyed == {i \in 1..Len(Lines) : HasChar(Lines[i], ":")}
LastOfKey == {i \in Keyed : \A j \in Keyed : j > i => KeyOf(Lines[j]) # KeyOf(Lines[i])}
ReportedKeys == {KeyOf(Lines[i]) : i \in Keyed}
LastVal(key) == ValOf(Lines[CHOOSE i \in LastOfKey : KeyOf(Lines[i]) = key])
\* parse_info has built the mapping of this poll and it is still at hand
Parsed == pc \in {"derive", "project", "wildcard"} \/ (pc = "done" /\ info.t = "dict")
\* read_callback is over, and it had a mapping to project
Projected == pc = "done" /\ outcome \in {"ok", "raised_fixed", "raised_wildcard"}
Readings == {dispatched[i] : i \in 1..Len(dispatched)}
IsDbKey(key) == StartsWith(key, <<"d","b">>) /\ IsDigits(SubSeq(key, 3, Len(key)))

\* C1: whenever a poll has ended, however it ended, its socket is not left open.
C1_SocketClosedAtExit == pc = "done" => sock # "open"

\* C2: a poll that ended on a refused connection, a rejected password or an
\* unparseable status line has dispatched no reading and has reported the
\* failure through collectd.error exactly once.
C2_WireFailureReportedOnce ==
  (pc = "done" /\ outcome \in {"connect_failed", "auth_failed", "raised_status"})
    => (dispatched = <<>> /\ nError = 1)

\* C3: a poll that waits for the authentication reply, the status line or the
\* body always comes to its end, whether or not the server sends anything.
C3_PollTerminates == (pc \in {"wait_auth", "wait_status", "wait_body"}) ~> (pc = "done")

\* C4: parse_info never fails in its loop over the lines, and every line with a
\* ':' puts the text before its first ':' into the mapping as a key.
C4_ParseInfoTotal ==
  /\ outcome # "raised_parse"
  /\ pc = "derive" => \A i \in Keyed : KeyOf(Lines[i]) \in DOMAIN info.d

\* C5: parse_info never fails in its slave loop; a slave<digits> SubMap gets
\* delay = int(master_repl_offset) - int(offset) when both are integers and is
\* left without delay otherwise.
C5_DelayOrSkip ==
  /\ outcome # "raised_derive"
  /\ pc = "project" =>
       \A k \in DOMAIN info.d :
         (SlaveRegexMatch(k) /\ info.d[k].t = "dict") =>
           IF /\ K_master_repl_offset \in DOMAIN info.d
              /\ int(info.d[K_master_repl_offset]).t = "int"
              /\ K_offset \in DOMAIN info.d[k].d
              /\ int(info.d[k].d[K_offset]).t = "int"
             THEN /\ K_delay \in DOMAIN info.d[k].d
                  /\ int(info.d[k].d[K_delay]).n
                       = int(info.d[K_master_repl_offset]).n - int(info.d[k].d[K_offset]).n
             ELSE K_delay \notin DOMAIN info.d[k].d

\* C6: the projection never aborts, and every metric of the fixed list that has
\* no variant map and whose source value is an integer is dispatched, whatever
\* the values of the metrics before it.
C6_BadValueSkipsOneMetric ==
  /\ outcome # "raised_fixed"
  /\ Projected =>
       \A i \in 1..Len(StandardMetrics) :
         LET m == StandardMetrics[i]
         IN (/\ m.variants = EmptyMap
             /\ m.key \in DOMAIN info.d
             /\ int(info.d[m.key]).t = "int")
            => \E r \in Readings :
                 /\ r.type_instance = (IF m.type_instance = <<>> THEN m.key ELSE m.type_instance)
                 /\ r.value = int(info.d[m.key]).n

\* C7 as stated: after the alias line the mapping has changes_since_last_save
\* if and only if the report had it or had rdb_changes_since_last_save.
C7_AliasPresentIffReported ==
  Parsed => (K_changes_since_last_save \in DOMAIN info.d
               <=> (ReportedKeys \cap {K_changes_since_last_save, K_rdb_changes_since_last_save}) # {})

\* C7 as amended: after the alias line the mapping always has
\* changes_since_last_save: with its own value if the report had it, else with
\* the value of rdb_changes_since_last_save if the report had that, else None.
C7_AliasAlwaysPresent ==
  Parsed =>
    /\ K_changes_since_last_save \in DOMAIN info.d
    /\ info.d[K_changes_since_last_save] =
         IF K_changes_since_last_save \in ReportedKeys
           THEN ParseVal(LastVal(K_changes_since_last_save))
         ELSE IF K_rdb_changes_since_last_save \in ReportedKeys
           THEN info.d[K_rdb_changes_since_last_save]
         ELSE None
\* the report had only rdb_changes_since_last_save:42 and the alias copied it
C7_AliasCopiedFromRdb ==
  /\ pc = "derive"
  /\ K_rdb_changes_since_last_save \in ReportedKeys
  /\ K_changes_since_last_save \notin ReportedKeys
  /\ info.d[K_changes_since_last_save] = PyStr(<<"4","2","\r">>)

\* the pieces of the multi-value line i, and those that are the last of their head
Pieces(i) == Split(ValOf(Lines[i]), ",")
HeadOf(p) == SubSeq(p, 1, RFind(p, "=") - 1)
TailOf(p) == SubSeq(p, RFind(p, "=") + 1, Len(p))
MultiValued == {i \in LastOfKey : HasChar(ValOf(Lines[i]), ",")}

\* C9 as stated: each piece of a multi-value line is stored under the text
\* before its last '=' with the text after it, and a piece without '=' under
\* the piece itself with an empty value.
C9_PieceWithoutEqualsIsKey ==
  pc = "derive" =>
    \A i \in MultiValued :
      LET d == info.d[KeyOf(Lines[i])].d
          ps == Pieces(i)
          ClaimedKey(p) == IF HasChar(p, "=") THEN HeadOf(p) ELSE p
          ClaimedVal(p) == IF HasChar(p, "=") THEN TailOf(p) ELSE <<>>
      IN \A j \in 1..Len(ps) :
           (\A l \in (j+1)..Len(ps) : ClaimedKey(ps[l]) # ClaimedKey(ps[j]))
             => (ClaimedKey(ps[j]) \in DOMAIN d /\ d[ClaimedKey(ps[j])] = PyStr(ClaimedVal(ps[j])))

\* C9 as amended: each piece of a multi-value line is stored under the text
\* before its last '=' with the text after it, and a piece without '=' under
\* the empty sub-key with the piece itself as value.
C9_PieceSplitAtLastEquals ==
  pc = "derive" =>
    \A i \in MultiValued :
      LET v == info.d[KeyOf(Lines[i])]
          ps == Pieces(i)
      IN /\ v.t = "dict"
         /\ DOMAIN v.d = {HeadOf(ps[j]) : j \in 1..Len(ps)}
         /\ \A j \in 1..Len(ps) :
              (\A l \in (j+1)..Len(ps) : HeadOf(ps[l]) # HeadOf(ps[j]))
                => /\ v.d[HeadOf(ps[j])] = PyStr(TailOf(ps[j]))
                   /\ ~HasChar(v.d[HeadOf(ps[j])].s, "=")
\* dbfoo:keys=7,x=5=y,lag was parsed: x=5=y went under 'x=5', lag under ''
C9_LastEqualsWins ==
  /\ pc = "derive"
  /\ <<"d","b","f","o","o">> \in DOMAIN info.d
  /\ info.d[<<"d","b","f","o","o">>] = PyDict((K_keys :> PyStr(<<"7">>)) @@ (<<"x","=","5">> :> PyStr(<<"y">>)) @@ (<<>> :> PyStr(<<"l","a","g">>)))

\* C10: the wildcard pass dispatches '<key>-keys' for exactly the keys
\* db<digits> whose value is a SubMap with an integer 'keys', and no key that
\* begins with 'db' makes it fail.
C10_DbKeysReadings ==
  (pc = "done" /\ outcome \in {"ok", "raised_wildcard"}) =>
    /\ \A r \in Readings : \A k \in DOMAIN info.d :
         r.type_instance = k \o <<"-","k","e","y","s">> => IsDbKey(k) /\ info.d[k].t = "dict"
    /\ outcome = "ok" =>
         \A k \in DOMAIN info.d :
           (IsDbKey(k) /\ info.d[k].t = "dict" /\ K_keys \in DOMAIN info.d[k].d
              /\ int(info.d[k].d[K_keys]).t = "int")
             => [type |-> "gauge", type_instance |-> k \o <<"-","k","e","y","s">>,
                 value |-> int(info.d[k].d[K_keys]).n] \in Readings
    /\ outcome = "raised_wildcard" =>
         \E k \in DOMAIN info.d :
           (StartsWith(k, <<"r","e","p","l","_">>) \/ StartsWith(k, <<"v","m","_","s","t","a","t","s","_">>)) /\ int(info.d[k]).t = "exc"

\* C8: the mapping a poll works on and the readings it dispatches come from
\* the reply of that poll alone, whatever the polls before it were: every key
\* is a key of this reply or one of the two derived keys, every value is the
\* parse of this reply's last line for the key (with delay added to a slave
\* from this mapping's offsets), slaves_max_delay is a delay of this mapping,
\* and every reading is named after a key of this mapping.
C8_PollsIndependent ==
  Parsed =>
    /\ DOMAIN info.d \subseteq ReportedKeys \cup {K_changes_since_last_save, K_slaves_max_delay}
    /\ \A k \in ReportedKeys :
         LET v == ParseVal(LastVal(k))
         IN \/ info.d[k] = v
            \/ /\ pc # "derive"
               /\ SlaveRegexMatch(k)
               /\ v.t = "dict"
               /\ info.d[k] = PyDict(Put(v.d, K_delay,
                                PyInt(int(info.d[K_master_repl_offset]).n - int(v.d[K_offset]).n)))
    /\ (K_slaves_max_delay \in DOMAIN info.d /\ K_slaves_max_delay \notin ReportedKeys) =>
         \E k \in ReportedKeys : SlaveRegexMatch(k) /\ info.d[k].d[K_delay] = info.d[K_slaves_max_delay]
    /\ \A r \in Readings :
         \/ \E k \in DOMAIN info.d : r.type_instance \in {k, k \o <<"-","k","e","y","s">>, k \o <<"-","d","e","l","a","y">>}
         \/ \E i \in 1..Len(StandardMetrics) :
              /\ StandardMetrics[i].key \in DOMAIN info.d
              /\ StandardMetrics[i].type_instance = r.type_instance
\* a poll that followed a failed poll got a good reply with a slave in it and
\* dispatched the delay derived from that reply
C8_GoodPollAfterFailedPoll ==
  /\ pc = "done"
  /\ outcome = "ok"
  /\ prevFailed
  /\ [type |-> "gauge", type_instance |-> <<"s","l","a","v","e","0","-","d","e","l","a","y">>, value |-> 100] \in Readings
  /\ [type |-> "gauge", type_instance |-> K_slaves_max_delay, value |-> 100] \in Readings
====
